---- MODULE Spec2Model ----
(***************************************************************************)
(* Inventory ledger of the bookstore backend (backend/inventory).          *)
(*                                                                         *)
(* The durable store is the tables Book (price), Inventory, Inventory-     *)
(* Transaction and Sale.  Every ledger request (arrival, adjustment, sale) *)
(* runs inside @transaction.atomic: its writes are buffered in the request *)
(* and reach the tables in its commit step, or are discarded when a        *)
(* statement raises.  Statements of different requests interleave; a read  *)
(* sees the committed tables (READ COMMITTED, the isolation level Django   *)
(* runs PostgreSQL and MySQL at), and an INSERT of a unique key waits for  *)
(* an uncommitted INSERT of the same key.  inventory.save() takes the      *)
(* row's lock until the commit: no other request writes the row or sees    *)
(* the new value in between, so save(), the INSERT of the transaction row  *)
(* that follows it and the commit are one step of the model.               *)
(***************************************************************************)
EXTENDS Integers, Sequences, FiniteSets, TLC

\* ------------------------------------------------------------------ bounds
MaxQuantity == 2        \* the largest quantity a request asks for
MaxTransactions == 3    \* SpecSeq: requests start while fewer rows are recorded
MaxCommitted == 2       \* Spec: requests start while fewer rows are recorded
MaxSales == 2           \* SpecTop: the most Sale rows a report is asked over

\* ------------------------------------------------------------ value sets
Books == {1, 2}
Reqs == {1, 2}
Prices == {1500, 1800}
Times == {1, 2}
Quantities == 0..MaxQuantity
Reasons == { <<>>, <<" ">>, <<"x">>, <<" ", "x">> }

ARRIVAL == "ARRIVAL"
SALE == "SALE"
LOSS == "LOSS"
THEFT == "THEFT"
TransactionType == {ARRIVAL, SALE, LOSS, THEFT}

HTTP_200_OK == "200"
HTTP_201_CREATED == "201"
HTTP_204_NO_CONTENT == "204"
HTTP_400_BAD_REQUEST == "400"
HTTP_500_INTERNAL_SERVER_ERROR == "500"    \* an exception no handler catches

VARIABLES
    price,          \* Book.price, per Book row of the catalog
    hasInventory,   \* the books that have an Inventory row
    quantity,       \* Inventory.quantity, per book (0 while there is no row)
    transactions,   \* the InventoryTransaction rows, in creation order
    sales,          \* the Sale rows, in creation order
    req,            \* per connection: the request it is running
    response        \* the response sent last

db == <<price, hasInventory, quantity, transactions, sales>>
vars == <<price, hasInventory, quantity, transactions, sales, req, response>>

\* ------------------------------------------------------- field validation
RECURSIVE LStrip(_)
LStrip(s) == IF s # <<>> /\ Head(s) = " " THEN LStrip(Tail(s)) ELSE s

RECURSIVE RStrip(_)
RStrip(s) ==
    IF s # <<>> /\ s[Len(s)] = " " THEN RStrip(SubSeq(s, 1, Len(s) - 1)) ELSE s

Strip(s) == RStrip(LStrip(s))

\* serializers.CharField(): trims the value, and refuses a blank one.
CharField_to_internal_value(value) == Strip(value)

CharField_valid(value) == Strip(value) # <<>>

\* validate_reason: `if not value.strip(): raise ValidationError`.
validate_reason(value) == Strip(value) # <<>>

\* serializers.IntegerField(min_value=1)
IntegerField_valid_mut(q) == q >= 0
IntegerField_valid(q) == q >= 1

\* serializers.ChoiceField(choices=["LOSS", "THEFT"])
ChoiceField_valid(t) == t \in {LOSS, THEFT}

\* serializers.PrimaryKeyRelatedField(queryset=Book.objects.all())
PrimaryKeyRelatedField_valid(book_id) == book_id \in DOMAIN price

\* models.PositiveIntegerField: the column's CHECK (quantity >= 0).
PositiveIntegerField_check_mut(v) == TRUE
PositiveIntegerField_check(v) == v >= 0

\* InventoryAdjustmentSerializer.validate / SaleCreateSerializer.validate:
\* the book has an Inventory and its quantity is not below the requested one.
Inventory_DoesNotExist(book) == book \notin hasInventory

exceeds_inventory_mut(book, q) == quantity[book] + 1 < q
exceeds_inventory(book, q) == quantity[book] < q

\* The key of the error detail validate raises; "" when it returns data.
validate_mut(book, q) ==
    IF book \in hasInventory /\ exceeds_inventory(book, q) THEN "quantity" ELSE ""
validate(book, q) ==
    IF Inventory_DoesNotExist(book) THEN "book_id"
    ELSE IF exceeds_inventory(book, q) THEN "quantity"
    ELSE ""

\* ----------------------------------------------------------------- requests
Idle ==
    [ pc |-> "idle", view |-> "none", book |-> 0, quantity |-> 0,
      transaction_type |-> "", reason |-> <<>>, sold_at |-> 0, book_price |-> 0,
      inventory_quantity |-> 0, created |-> FALSE, sale |-> FALSE ]

NoResponse == [view |-> "none", status |-> "", error |-> "", inventory_after |-> 0]

\* A response: the view, the status, the key of the error detail of a rejection,
\* and (adjustments) the inventory_after it reports.
Response(view, status, error, after) ==
    [view |-> view, status |-> status, error |-> error, inventory_after |-> after]

InFlight(r) == req[r].pc # "idle"

NoRequestInFlight == \A r \in Reqs : ~ InFlight(r)

\* Connections are interchangeable: a new request takes the first free one.
Free(r) == ~ InFlight(r) /\ \A o \in Reqs : o < r => InFlight(o)

\* Another request holds an uncommitted INSERT of book's Inventory.
InsertPending_mut(r, book) == FALSE
InsertPending_table(r, book) == \E o \in Reqs \ {r} : InFlight(o) /\ req[o].created
InsertPending(r, book) ==
    \E o \in Reqs \ {r} : InFlight(o) /\ req[o].book = book /\ req[o].created

Init ==
    /\ price = [b \in Books |-> 1500]
    /\ hasInventory = {}
    /\ quantity = [b \in Books |-> 0]
    /\ transactions = <<>>
    /\ sales = <<>>
    /\ req = [r \in Reqs |-> Idle]
    /\ response = NoResponse

\* ------------------------------------------------------------ BookViewSet
\* PUT/PATCH /books/<id>/ : the catalog changes a book's price.
BookViewSet_update(book, p) ==
    /\ book \in DOMAIN price
    /\ price[book] # p
    /\ price' = [price EXCEPT ![book] = p]
    /\ UNCHANGED <<hasInventory, quantity, transactions, sales, req, response>>

\* Sale.book is on_delete=PROTECT: a book with Sale rows cannot be deleted.
Sale_book_protects(book) == \E i \in 1..Len(sales) : sales[i].book = book

\* InventoryTransaction.inventory is on_delete=CASCADE: the rows that stay when
\* the Inventory of book is deleted.
InventoryTransaction_cascade(book) ==
    SelectSeq(transactions, LAMBDA t : t.inventory # book)

\* DELETE /books/<id>/ : the collector raises ProtectedError, which no handler
\* catches, when Sale rows reference the book; otherwise the Book row goes, and
\* by on_delete=CASCADE its Inventory and that Inventory's transactions with it.
BookViewSet_destroy(book) ==
    /\ book \in DOMAIN price
    /\ IF Sale_book_protects(book)
       THEN /\ response' = Response("book", HTTP_500_INTERNAL_SERVER_ERROR,
                                    "ProtectedError", 0)
            /\ UNCHANGED <<db, req>>
       ELSE /\ price' = [b \in DOMAIN price \ {book} |-> price[b]]
            /\ hasInventory' = hasInventory \ {book}
            /\ quantity' = [quantity EXCEPT ![book] = 0]
            /\ transactions' = InventoryTransaction_cascade(book)
            /\ response' = Response("book", HTTP_204_NO_CONTENT, "", 0)
            /\ UNCHANGED <<sales, req>>

\* --------------------------------------------------------- shared mechanics
\* serializer.is_valid(raise_exception=True): the request goes on with its
\* validated data, or is answered 400 with the error detail.
is_valid(r, error, validated) ==
    IF error = ""
    THEN /\ req' = [req EXCEPT ![r] = validated]
         /\ UNCHANGED response
    ELSE /\ response' = Response(validated.view, HTTP_400_BAD_REQUEST, error, 0)
         /\ UNCHANGED req

\* The atomic block ends in an exception: its writes are rolled back and the
\* request is answered as a server error.
rollback_mut(r, error) ==
    /\ req' = [req EXCEPT ![r] = Idle]
    /\ response' = Response(req[r].view, HTTP_500_INTERNAL_SERVER_ERROR, error, 0)
    /\ sales' = IF req[r].sale
                THEN Append(sales, [book |-> req[r].book, quantity |-> req[r].quantity,
                                    unit_price |-> req[r].book_price,
                                    sold_at |-> req[r].sold_at])
                ELSE sales
    /\ UNCHANGED <<price, hasInventory, quantity, transactions>>
rollback(r, error) ==
    /\ req' = [req EXCEPT ![r] = Idle]
    /\ response' = Response(req[r].view, HTTP_500_INTERNAL_SERVER_ERROR, error, 0)
    /\ UNCHANGED db

\* ------------------------------------------------------------ ArrivalView
ArrivalSerializer_errors(book_id, q) ==
    IF PrimaryKeyRelatedField_valid(book_id) /\ IntegerField_valid(q)
    THEN "" ELSE "fields"

\* POST /arrivals/ : serializer.is_valid(raise_exception=True).
ArrivalView_post(r, book_id, q) ==
    /\ Free(r)
    /\ is_valid(r, ArrivalSerializer_errors(book_id, q),
                [Idle EXCEPT !.pc = "validated", !.view = "arrival",
                             !.book = book_id, !.quantity = q])
    /\ UNCHANGED db

\* Inventory.objects.get_or_create(book=book, defaults={"quantity": 0}): the row
\* read, or inserted with quantity 0 once no other insert of it is pending.
ArrivalView_get_or_create(r) ==
    /\ req[r].pc = "validated" /\ req[r].view = "arrival"
    /\ LET book == req[r].book IN
        IF book \in hasInventory
        THEN req' = [req EXCEPT ![r].pc = "got",
                                ![r].inventory_quantity = quantity[book]]
        ELSE /\ ~ InsertPending(r, book)
             /\ req' = [req EXCEPT ![r].pc = "got", ![r].created = TRUE,
                                   ![r].inventory_quantity = 0]
    /\ UNCHANGED <<db, response>>

\* inventory.quantity += quantity
arrival_quantity(r) == req[r].inventory_quantity + req[r].quantity

\* The row InventoryTransaction.objects.create(...) appends.
arrival_transaction_mut(r) == <<>>
arrival_transaction(r) ==
    << [inventory |-> req[r].book, transaction_type |-> ARRIVAL,
        quantity |-> req[r].quantity, reason |-> <<>>] >>

\* inventory.save() (the column's CHECK may refuse the value: IntegrityError),
\* InventoryTransaction.objects.create(ARRIVAL), the 201 response, and the
\* commit of the atomic block.
ArrivalView_save(r) ==
    /\ req[r].pc = "got" /\ req[r].view = "arrival"
    /\ IF PositiveIntegerField_check(arrival_quantity(r))
       THEN /\ hasInventory' = hasInventory \cup {req[r].book}
            /\ quantity' = [quantity EXCEPT ![req[r].book] = arrival_quantity(r)]
            /\ transactions' = transactions \o arrival_transaction(r)
            /\ req' = [req EXCEPT ![r] = Idle]
            /\ response' = Response("arrival", HTTP_201_CREATED, "", 0)
            /\ UNCHANGED <<price, sales>>
       ELSE rollback(r, "IntegrityError")

\* ------------------------------------------------- InventoryAdjustmentView
\* The error detail of InventoryAdjustmentSerializer: the fields and
\* validate_reason first, validate only when those pass.
InventoryAdjustmentSerializer_errors_mut(book_id, tx_type, q, reason) ==
    IF ~ (/\ PrimaryKeyRelatedField_valid(book_id)
          /\ ChoiceField_valid(tx_type)
          /\ IntegerField_valid(q))
    THEN "fields"
    ELSE validate(book_id, q)
InventoryAdjustmentSerializer_errors(book_id, tx_type, q, reason) ==
    IF ~ (CharField_valid(reason) /\ validate_reason(CharField_to_internal_value(reason)))
    THEN "reason"
    ELSE IF ~ (/\ PrimaryKeyRelatedField_valid(book_id)
               /\ ChoiceField_valid(tx_type)
               /\ IntegerField_valid(q))
    THEN "fields"
    ELSE validate(book_id, q)

\* POST /inventory-adjustments/ : serializer.is_valid(raise_exception=True).
InventoryAdjustmentView_post(r, book_id, tx_type, q, reason) ==
    /\ Free(r)
    /\ is_valid(r, InventoryAdjustmentSerializer_errors(book_id, tx_type, q, reason),
                [Idle EXCEPT !.pc = "validated", !.view = "adjustment",
                             !.book = book_id, !.quantity = q,
                             !.transaction_type = tx_type,
                             !.reason = CharField_to_internal_value(reason)])
    /\ UNCHANGED db

\* inventory = Inventory.objects.get(book=book)
InventoryAdjustmentView_get(r) ==
    /\ req[r].pc = "validated" /\ req[r].view = "adjustment"
    /\ req' = [req EXCEPT ![r].pc = "got",
                          ![r].inventory_quantity = quantity[req[r].book]]
    /\ UNCHANGED <<db, response>>

\* inventory.quantity -= quantity
adjustment_quantity_mut(r) == req[r].inventory_quantity - (req[r].quantity - 1)
adjustment_quantity(r) == req[r].inventory_quantity - req[r].quantity

\* "inventory_after": inventory.quantity
inventory_after_mut(r) == req[r].inventory_quantity
inventory_after(r) == adjustment_quantity(r)

\* The row InventoryTransaction.objects.create(...) appends.
adjustment_transaction(r) ==
    [inventory |-> req[r].book, transaction_type |-> req[r].transaction_type,
     quantity |-> req[r].quantity, reason |-> req[r].reason]

\* inventory.save() (the column's CHECK may refuse the value: IntegrityError),
\* InventoryTransaction.objects.create(tx_type, quantity, reason), the 201
\* response with inventory_after, and the commit of the atomic block.
InventoryAdjustmentView_save(r) ==
    /\ req[r].pc = "got" /\ req[r].view = "adjustment"
    /\ IF PositiveIntegerField_check(adjustment_quantity(r))
       THEN /\ quantity' = [quantity EXCEPT ![req[r].book] = adjustment_quantity(r)]
            /\ transactions' = Append(transactions, adjustment_transaction(r))
            /\ req' = [req EXCEPT ![r] = Idle]
            /\ response' = Response("adjustment", HTTP_201_CREATED, "",
                                    inventory_after(r))
            /\ UNCHANGED <<price, hasInventory, sales>>
       ELSE rollback(r, "IntegrityError")

\* ---------------------------------------------------------------- SaleView
SaleCreateSerializer_errors(book_id, q) ==
    IF ~ (PrimaryKeyRelatedField_valid(book_id) /\ IntegerField_valid(q))
    THEN "fields"
    ELSE validate(book_id, q)

\* POST /sales/ : serializer.is_valid(raise_exception=True); validated_data
\* holds the Book instance, with the price it has now.
SaleView_post(r, book_id, q, sold_at) ==
    /\ Free(r)
    /\ is_valid(r, SaleCreateSerializer_errors(book_id, q),
                [Idle EXCEPT !.pc = "validated", !.view = "sale",
                             !.book = book_id, !.quantity = q, !.sold_at = sold_at,
                             !.book_price = IF book_id \in DOMAIN price
                                            THEN price[book_id] ELSE 0])
    /\ UNCHANGED db

\* Sale.objects.create(book, quantity, unit_price=book.price, sold_at), buffered,
\* then inventory = Inventory.objects.get(book=book).
SaleView_create_sale(r) ==
    /\ req[r].pc = "validated" /\ req[r].view = "sale"
    /\ req' = [req EXCEPT ![r].pc = "got", ![r].sale = TRUE,
                          ![r].inventory_quantity = quantity[req[r].book]]
    /\ UNCHANGED <<db, response>>

\* inventory.quantity -= quantity
sale_quantity_mut(r) == req[r].inventory_quantity
sale_quantity(r) == req[r].inventory_quantity - req[r].quantity

\* unit_price=book.price, of the Book instance the serializer loaded.
sale_unit_price_mut(r) == price[req[r].book]
sale_unit_price(r) == req[r].book_price

\* The Sale row of the request.
Sale_row(r) ==
    [book |-> req[r].book, quantity |-> req[r].quantity,
     unit_price |-> sale_unit_price(r), sold_at |-> req[r].sold_at]

\* The row InventoryTransaction.objects.create(...) appends.
sale_transaction_mut(r) ==
    [inventory |-> req[r].book, transaction_type |-> SALE,
     quantity |-> sale_quantity(r), reason |-> <<>>]
sale_transaction(r) ==
    [inventory |-> req[r].book, transaction_type |-> SALE,
     quantity |-> req[r].quantity, reason |-> <<>>]

\* inventory.save() (the column's CHECK may refuse the value: IntegrityError),
\* InventoryTransaction.objects.create(SALE), the 201 response, and the commit
\* of the atomic block: the Sale row, the Inventory update and the transaction
\* reach the tables together, or the Sale row is rolled back.
SaleView_save(r) ==
    /\ req[r].pc = "got" /\ req[r].view = "sale"
    /\ IF PositiveIntegerField_check(sale_quantity(r))
       THEN /\ sales' = Append(sales, Sale_row(r))
            /\ quantity' = [quantity EXCEPT ![req[r].book] = sale_quantity(r)]
            /\ transactions' = Append(transactions, sale_transaction(r))
            /\ req' = [req EXCEPT ![r] = Idle]
            /\ response' = Response("sale", HTTP_201_CREATED, "", 0)
            /\ UNCHANGED <<price, hasInventory>>
       ELSE rollback(r, "IntegrityError")

\* ----------------------------------------------------------- specifications
Step(r) ==
    \/ ArrivalView_get_or_create(r)
    \/ ArrivalView_save(r)
    \/ InventoryAdjustmentView_get(r)
    \/ InventoryAdjustmentView_save(r)
    \/ SaleView_create_sale(r)
    \/ SaleView_save(r)

\* Requests on the two connections interleave statement by statement; they
\* contend for book 1, and the catalog is left alone.
Contended == {1}

Next ==
    \/ \E r \in Reqs, b \in Contended, q \in Quantities :
          Len(transactions) < MaxCommitted /\ ArrivalView_post(r, b, q)
    \/ \E r \in Reqs, b \in Contended, t \in {LOSS, THEFT}, q \in Quantities,
          s \in Reasons :
          Len(transactions) < MaxCommitted
              /\ InventoryAdjustmentView_post(r, b, t, q, s)
    \/ \E r \in Reqs, b \in Contended, q \in Quantities, t \in Times :
          Len(transactions) < MaxCommitted /\ SaleView_post(r, b, q, t)
    \/ \E r \in Reqs : Step(r)

Spec == Init /\ [][Next]_vars

\* Ledger requests run one after another, on every book: a request starts only
\* when none is running. Every sale carries the same sold_at.
NextSeq ==
    \/ \E r \in Reqs, b \in Books, q \in Quantities :
          /\ NoRequestInFlight /\ Len(transactions) < MaxTransactions
          /\ ArrivalView_post(r, b, q)
    \/ \E r \in Reqs, b \in Books, t \in {LOSS, THEFT}, q \in Quantities,
          s \in Reasons :
          /\ NoRequestInFlight /\ Len(transactions) < MaxTransactions
          /\ InventoryAdjustmentView_post(r, b, t, q, s)
    \/ \E r \in Reqs, b \in Books, q \in Quantities, t \in {1} :
          /\ NoRequestInFlight /\ Len(transactions) < MaxTransactions
          /\ SaleView_post(r, b, q, t)
    \/ \E r \in Reqs : Step(r)

SpecSeq == Init /\ [][NextSeq]_vars

\* One book, requests one after another, and the catalog changing its price at
\* any moment, also while a request runs, and deleting the book between two
\* requests. An arrival or an adjustment may name a book the catalog does not
\* hold, an adjustment a kind that is not LOSS or THEFT.
NextCatalog ==
    \/ \E p \in Prices : BookViewSet_update(1, p)
    \/ \E b \in Contended : NoRequestInFlight /\ BookViewSet_destroy(b)
    \/ \E r \in Reqs, b \in Contended \cup {3}, q \in Quantities :
          /\ NoRequestInFlight /\ Len(transactions) < MaxTransactions
          /\ ArrivalView_post(r, b, q)
    \/ \E r \in Reqs, b \in Contended \cup {3}, t \in {LOSS, THEFT, SALE},
          q \in Quantities,
          s \in Reasons :
          /\ NoRequestInFlight /\ Len(transactions) < MaxTransactions
          /\ InventoryAdjustmentView_post(r, b, t, q, s)
    \/ \E r \in Reqs, b \in Contended, q \in Quantities, t \in Times :
          /\ NoRequestInFlight /\ Len(transactions) < MaxTransactions
          /\ SaleView_post(r, b, q, t)
    \/ \E r \in Reqs : Step(r)

SpecCatalog == Init /\ [][NextCatalog]_vars

\* No running request is about book b.
NotInUse(b) == \A o \in Reqs : InFlight(o) => req[o].book # b

\* The quantities asked where two books are in use: none, one, and more than one.
FewQuantities == {0, 1, 2}

\* Requests on the two connections interleave statement by statement, each on
\* a book no other running request is about. Every sale carries the same
\* sold_at, every adjustment is a LOSS.
NextBooks ==
    \/ \E r \in Reqs, b \in Books, q \in FewQuantities :
          /\ NotInUse(b) /\ Len(transactions) < MaxTransactions
          /\ ArrivalView_post(r, b, q)
    \/ \E r \in Reqs, b \in Books, t \in {LOSS}, q \in FewQuantities,
          s \in {<<>>, <<"x">>} :
          /\ NotInUse(b) /\ Len(transactions) < MaxTransactions
          /\ InventoryAdjustmentView_post(r, b, t, q, s)
    \/ \E r \in Reqs, b \in Books, q \in FewQuantities, t \in {1} :
          /\ NotInUse(b) /\ Len(transactions) < MaxTransactions
          /\ SaleView_post(r, b, q, t)
    \/ \E r \in Reqs : Step(r)

SpecBooks == Init /\ [][NextBooks]_vars

\* The tables as the tests' setUp leaves them: the Inventory of book 1 created
\* with a quantity of its own, and no transaction.
InitFixture ==
    /\ price = [b \in Books |-> 1500]
    /\ hasInventory = {1}
    /\ \E q0 \in Quantities : quantity = [b \in Books |-> IF b = 1 THEN q0 ELSE 0]
    /\ transactions = <<>>
    /\ sales = <<>>
    /\ req = [r \in Reqs |-> Idle]
    /\ response = NoResponse

\* Ledger requests on the book of the fixture, one after another. Every sale
\* carries the same sold_at.
NextFixture ==
    \/ \E r \in Reqs, b \in Contended, q \in Quantities :
          /\ NoRequestInFlight /\ Len(transactions) < MaxTransactions
          /\ ArrivalView_post(r, b, q)
    \/ \E r \in Reqs, b \in Contended, t \in {LOSS, THEFT}, q \in Quantities,
          s \in Reasons :
          /\ NoRequestInFlight /\ Len(transactions) < MaxTransactions
          /\ InventoryAdjustmentView_post(r, b, t, q, s)
    \/ \E r \in Reqs, b \in Contended, q \in Quantities, t \in {1} :
          /\ NoRequestInFlight /\ Len(transactions) < MaxTransactions
          /\ SaleView_post(r, b, q, t)
    \/ \E r \in Reqs : Step(r)

SpecFixture == InitFixture /\ [][NextFixture]_vars

\* ----------------------------------------------------------------- reports
\* Time is counted in days.  timezone.now() of the report requests:
timezone_now == 2000

PERIOD_MAPPING ==
    [p \in {"1w", "1m", "3m", "6m", "1y", "5y", "all"} |->
        CASE p = "1w" -> 7
          [] p = "1m" -> 30
          [] p = "3m" -> 90
          [] p = "6m" -> 180
          [] p = "1y" -> 365
          [] p = "5y" -> 365 * 5
          [] p = "all" -> 0]      \* None: `if delta:` is false, no lower bound

\* Book.genre of the three books the reports are asked over: two of genre 1,
\* one of genre 2.
ReportBooks == {1, 2, 3}
Book_genre == [b \in ReportBooks |-> IF b = 3 THEN 2 ELSE 1]

\* int(text) of Python, for a text of digits with an optional minus sign; any
\* other text raises ValueError.
DigitValue(c) ==
    CASE c = "0" -> 0 [] c = "1" -> 1 [] c = "2" -> 2 [] c = "3" -> 3
      [] c = "4" -> 4 [] c = "5" -> 5 [] c = "6" -> 6 [] c = "7" -> 7
      [] c = "8" -> 8 [] c = "9" -> 9

Digits(text) == IF text # <<>> /\ Head(text) = "-" THEN Tail(text) ELSE text

int_raises(text) ==
    \/ Digits(text) = <<>>
    \/ \E i \in 1..Len(Digits(text)) :
          Digits(text)[i] \notin {"0", "1", "2", "3", "4", "5", "6", "7", "8", "9"}

RECURSIVE DigitsValue(_)
DigitsValue(ds) ==
    IF ds = <<>> THEN 0
    ELSE 10 * DigitsValue(SubSeq(ds, 1, Len(ds) - 1)) + DigitValue(ds[Len(ds)])

int(text) ==
    IF text # <<>> /\ Head(text) = "-"
    THEN 0 - DigitsValue(Digits(text)) ELSE DigitsValue(Digits(text))

\* request.query_params.get(key) is None: the key is not in the query string.
query_params_has(query_params, key) == key \in DOMAIN query_params

\* `not period or period not in PERIOD_MAPPING`
period_rejected_mut(query_params) ==
    \/ ~ query_params_has(query_params, "period")
    \/ query_params.period \in {"", "5y"}
    \/ query_params.period \notin DOMAIN PERIOD_MAPPING
period_rejected(query_params) ==
    \/ ~ query_params_has(query_params, "period")
    \/ query_params.period = ""
    \/ query_params.period \notin DOMAIN PERIOD_MAPPING

\* `not genre_id`
genre_id_rejected(query_params) ==
    \/ ~ query_params_has(query_params, "genre_id")
    \/ query_params.genre_id = <<>>

\* int(request.query_params.get("limit", 10)) raises ValueError
limit_raises(query_params) ==
    query_params_has(query_params, "limit") /\ int_raises(query_params.limit)

\* limit = int(request.query_params.get("limit", 10))
limit_of(query_params) ==
    IF query_params_has(query_params, "limit") THEN int(query_params.limit) ELSE 10

\* queryset.filter(sold_at__gte=timezone.now() - delta), when delta is truthy.
filter_sold_at_mut(queryset, period) ==
    IF PERIOD_MAPPING[period] # 0
    THEN SelectSeq(queryset,
                   LAMBDA s : s.sold_at > timezone_now - PERIOD_MAPPING[period])
    ELSE queryset
filter_sold_at(queryset, period) ==
    IF PERIOD_MAPPING[period] # 0
    THEN SelectSeq(queryset,
                   LAMBDA s : s.sold_at >= timezone_now - PERIOD_MAPPING[period])
    ELSE queryset

\* Sale.objects.filter(book__genre_id=genre_id)
filter_genre_mut(queryset, genre_id) == queryset
filter_genre(queryset, genre_id) ==
    SelectSeq(queryset, LAMBDA s : Book_genre[s.book] = genre_id)

\* Sum("quantity") over the rows of one book.
RECURSIVE Sum_quantity(_, _)
Sum_quantity(queryset, book) ==
    IF queryset = <<>> THEN 0
    ELSE (IF Head(queryset).book = book THEN Head(queryset).quantity ELSE 0)
         + Sum_quantity(Tail(queryset), book)

\* .values("book_id", ...).annotate(total_quantity=Sum("quantity")): one entry
\* per book that has a row in the queryset.
annotate(queryset) ==
    { [book_id |-> b, total_quantity |-> Sum_quantity(queryset, b)] :
        b \in {queryset[i].book : i \in 1..Len(queryset)} }

\* .order_by("-total_quantity"): the store may return the entries in any order
\* that does not put a smaller total before a larger one; no further key orders
\* entries of equal total.
order_by(groups) ==
    { o \in [1..Cardinality(groups) -> groups] :
        /\ \A i, j \in 1..Cardinality(groups) : i # j => o[i] # o[j]
        /\ \A i, j \in 1..Cardinality(groups) :
              i < j => o[i].total_quantity >= o[j].total_quantity }

\* [:limit]
slice_mut(ordered, limit) ==
    SubSeq(ordered, 1, IF limit + 1 < Len(ordered) THEN limit + 1 ELSE Len(ordered))
slice(ordered, limit) ==
    SubSeq(ordered, 1, IF limit < Len(ordered) THEN limit ELSE Len(ordered))

\* The 200 response of a report: the list of entries.
Report(view, data) ==
    [view |-> view, status |-> HTTP_200_OK, error |-> "", inventory_after |-> 0,
     data |-> data]

\* The answers the report can give over a queryset: the ranking cut to limit; a
\* negative limit is refused by the queryset ("Negative indexing is not
\* supported"), which no handler catches.
top_sales(view, queryset, limit) ==
    IF limit < 0
    THEN { Response(view, HTTP_500_INTERNAL_SERVER_ERROR, "ValueError", 0) }
    ELSE { Report(view, slice(o, limit)) : o \in order_by(annotate(queryset)) }

\* GET /sales/top/ , asked with the query string of the request; the client may
\* ask again.
TopSalesView_answers(query_params) ==
    IF period_rejected(query_params)
    THEN { Response("top", HTTP_400_BAD_REQUEST, "period", 0) }
    ELSE IF limit_raises(query_params)
    THEN { Response("top", HTTP_500_INTERNAL_SERVER_ERROR, "ValueError", 0) }
    ELSE top_sales("top", filter_sold_at(sales, query_params.period),
                   limit_of(query_params))

TopSalesView_get(r) ==
    /\ req[r].pc = "report" /\ req[r].view = "top"
    /\ response' \in TopSalesView_answers(req[r].query_params)
    /\ UNCHANGED <<db, req>>

\* GET /sales/top/by-genre/ : genre_id goes into the filter as it came; a text
\* that is no number raises ValueError there.
TopSalesByGenreView_answers(query_params) ==
    IF period_rejected(query_params)
    THEN { Response("by_genre", HTTP_400_BAD_REQUEST, "period", 0) }
    ELSE IF genre_id_rejected(query_params)
    THEN { Response("by_genre", HTTP_400_BAD_REQUEST, "genre_id", 0) }
    ELSE IF limit_raises(query_params) \/ int_raises(query_params.genre_id)
    THEN { Response("by_genre", HTTP_500_INTERNAL_SERVER_ERROR, "ValueError", 0) }
    ELSE top_sales("by_genre",
                   filter_sold_at(filter_genre(sales, int(query_params.genre_id)),
                                  query_params.period),
                   limit_of(query_params))

TopSalesByGenreView_get(r) ==
    /\ req[r].pc = "report" /\ req[r].view = "by_genre"
    /\ response' \in TopSalesByGenreView_answers(req[r].query_params)
    /\ UNCHANGED <<db, req>>

\* The query strings asked.
Periods == {"1w", "1m", "3m", "6m", "1y", "5y", "all", "", "2w"}
Limits == { <<"0">>, <<"1">>, <<"2">>, <<"-", "1">>, <<"x">> }
GenreIds == { <<>>, <<"1">>, <<"2">>, <<"9">>, <<"x">> }

TopSalesQueries ==
    {[x \in {} |-> ""]}
    \cup {[period |-> p] : p \in Periods}
    \cup {[limit |-> l] : l \in {<<"1">>}}
    \cup {[period |-> p, limit |-> l] : p \in Periods, l \in Limits}

TopSalesByGenreQueries ==
    {[x \in {} |-> ""]}
    \cup {[period |-> p] : p \in Periods}
    \cup {[genre_id |-> g] : g \in GenreIds}
    \cup {[period |-> p, genre_id |-> g] : p \in Periods, g \in GenreIds}
    \cup {[period |-> p, genre_id |-> g, limit |-> l] :
            p \in {"1w", "all"}, g \in {<<"1">>, <<"x">>}, l \in Limits}

\* The Sale rows the reports are asked over, created as the fixtures of the
\* tests create them: up to MaxSales rows, sold just outside the week, on its
\* boundary, or more than five years ago; rows are listed in one order.
SoldAt == {timezone_now - (365 * 5 + 1), timezone_now - 8, timezone_now - 7}

SaleRows ==
    [book : ReportBooks, quantity : {1, 2}, unit_price : {1500}, sold_at : SoldAt]

SaleKey(s) == (s.book * 10000 + s.sold_at) * 10 + s.quantity

SaleFixtures ==
    UNION { { rows \in [1..n -> SaleRows] :
                \A i \in 1..(n - 1) : SaleKey(rows[i]) <= SaleKey(rows[i + 1]) } :
            n \in 0..MaxSales }

InitTop ==
    /\ price = [b \in ReportBooks |-> 1500]
    /\ hasInventory = {}
    /\ quantity = [b \in Books |-> 0]
    /\ transactions = <<>>
    /\ sales \in SaleFixtures
    /\ \E q \in {[pc |-> "report", view |-> "top", query_params |-> qp] :
                   qp \in TopSalesQueries}
              \cup {[pc |-> "report", view |-> "by_genre", query_params |-> qp] :
                      qp \in TopSalesByGenreQueries} :
          req = [r \in Reqs |-> IF r = 1 THEN q ELSE Idle]
    /\ response = NoResponse

NextTop ==
    \/ \E r \in Reqs : TopSalesView_get(r)
    \/ \E r \in Reqs : TopSalesByGenreView_get(r)

SpecTop == InitTop /\ [][NextTop]_vars

\* ------------------------------------------------------------------ claims
\* The signed quantity of a transaction: ARRIVAL counts up, the others down.
Signed(t) == IF t.transaction_type = ARRIVAL THEN t.quantity ELSE 0 - t.quantity

RECURSIVE SumSigned(_, _)
SumSigned(txs, book) ==
    IF txs = <<>> THEN 0
    ELSE (IF Head(txs).inventory = book THEN Signed(Head(txs)) ELSE 0)
         + SumSigned(Tail(txs), book)

IsBlank(s) == \A i \in 1..Len(s) : s[i] = " "

Last(seq) == seq[Len(seq)]

Rejected400 == response'.status = HTTP_400_BAD_REQUEST /\ UNCHANGED <<db, req>>

\* C1: in every reachable committed state, under every interleaving of the
\* requests, every Inventory.quantity is >= 0.
C1_QuantityNeverNegative == \A b \in Books : quantity[b] >= 0

\* C1 witness: two decrements raced, and the one that would have driven the
\* quantity below 0 was refused by the store and rolled back.
C1_Witness ==
    /\ response.status = HTTP_500_INTERNAL_SERVER_ERROR
    /\ response.error = "IntegrityError"
    /\ quantity[1] = 0
    /\ Len(transactions) = 2

\* Request r, of the given view, ends in this step (committed or rolled back).
Finishes(r, view) == req[r].view = view /\ req[r].pc = "got" /\ req'[r].pc = "idle"

\* A running request keeps its validated data, and writes nothing to the tables
\* before the step that ends it.
RequestDataKept ==
    \A r \in Reqs : (InFlight(r) /\ req'[r].pc # "idle") =>
        /\ req'[r].view = req[r].view /\ req'[r].book = req[r].book
        /\ req'[r].quantity = req[r].quantity
        /\ req'[r].transaction_type = req[r].transaction_type
        /\ req'[r].reason = req[r].reason /\ req'[r].sold_at = req[r].sold_at
        /\ req'[r].book_price = req[r].book_price

\* C2: requests run one after another from a book without Inventory: after each
\* request Inventory.quantity is the signed sum of the book's transactions.
C2_LedgerBalanced == \A b \in Books : quantity[b] = SumSigned(transactions, b)

\* C2 witness: an arrival of 2, a sale and a loss of one book were recorded, and
\* the stock is used up.
C2_Witness ==
    \E b \in Books :
        /\ quantity[b] = 0
        /\ Len(transactions) = 3
        /\ transactions[1].quantity = 2
        /\ \A i \in 1..3 : transactions[i].inventory = b
        /\ {transactions[i].transaction_type : i \in 1..3} = {ARRIVAL, SALE, LOSS}

\* C3: a sale or an adjustment that asks for more than the book's
\* Inventory.quantity at the moment of its stock check is answered 400 and
\* changes nothing: no quantity, no transaction, no Sale row, no request left
\* running that could write later.
C3_ExcessRejected ==
    [][ \/ Rejected400
        \/ \A b \in hasInventory : \A q \in Quantities : q > quantity[b] =>
              \A r \in Reqs :
                 /\ \A t \in Times : ~ SaleView_post(r, b, q, t)
                 /\ \A t \in {LOSS, THEFT}, s \in Reasons :
                       ~ InventoryAdjustmentView_post(r, b, t, q, s) ]_vars

\* C3 witness: a sale was refused for exceeding a stock that is not empty.
C3_Witness ==
    /\ response = Response("sale", HTTP_400_BAD_REQUEST, "quantity", 0)
    /\ 1 \in hasInventory
    /\ quantity[1] >= 1

\* The quantities of book's Sale rows, and of its SALE transactions, in order.
SaleQuantities(book) ==
    LET RECURSIVE Of(_)
        Of(rows) == IF rows = <<>> THEN <<>>
                    ELSE (IF Head(rows).book = book THEN <<Head(rows).quantity>> ELSE <<>>)
                         \o Of(Tail(rows))
    IN Of(sales)

SaleTransactionQuantities(book) ==
    LET RECURSIVE Of(_)
        Of(txs) == IF txs = <<>> THEN <<>>
                   ELSE (IF Head(txs).inventory = book /\ Head(txs).transaction_type = SALE
                         THEN <<Head(txs).quantity>> ELSE <<>>)
                        \o Of(Tail(txs))
    IN Of(transactions)

\* C4: RecordSale is one unit.  In every committed state the Sale rows of a book
\* and its SALE transactions match one to one, with equal quantities; the step
\* that adds a Sale row is the step that writes the request's decremented
\* Inventory.quantity and appends its SALE transaction; and a sale that fails
\* after its Sale row was written leaves the tables as they were.
C4_SaleAtomic ==
    [][ /\ \A b \in Books : SaleQuantities(b)' = SaleTransactionQuantities(b)'
        /\ sales' # sales =>
             \E r \in Reqs :
                /\ Finishes(r, "sale") /\ req[r].sale
                /\ Len(sales') = Len(sales) + 1
                /\ Last(sales').book = req[r].book
                /\ Last(sales').quantity = req[r].quantity
                /\ Len(transactions') = Len(transactions) + 1
                /\ Last(transactions').inventory = req[r].book
                /\ Last(transactions').transaction_type = SALE
                /\ Last(transactions').quantity = req[r].quantity
                /\ quantity'[req[r].book] = req[r].inventory_quantity - req[r].quantity
        /\ \A r \in Reqs :
             (Finishes(r, "sale") /\ response'.status # HTTP_201_CREATED) =>
                 UNCHANGED db ]_vars

\* C4 witness: a sale failed at the inventory update, after its Sale row was
\* written, while another sale of the book is recorded; no row of the failed one
\* is left.
C4_Witness ==
    /\ response.view = "sale"
    /\ response.status = HTTP_500_INTERNAL_SERVER_ERROR
    /\ Len(sales) = 1
    /\ SaleTransactionQuantities(1) = SaleQuantities(1)

\* C5: a sale of q with 1 <= q <= Inventory.quantity is accepted and, when it
\* ends, has decreased the quantity by exactly q, added exactly one Sale row
\* {book, q, unit_price = the book's price at the call, sold_at} and appended
\* exactly one SALE transaction of q.
C5_SaleEffect ==
    [][ /\ \A b \in hasInventory : \A q \in Quantities : (1 <= q /\ q <= quantity[b]) =>
             \A r \in Reqs, t \in Times : SaleView_post(r, b, q, t) =>
                 /\ req'[r].pc = "validated" /\ req'[r].view = "sale"
                 /\ req'[r].book = b /\ req'[r].quantity = q
                 /\ req'[r].sold_at = t /\ req'[r].book_price = price[b]
        /\ RequestDataKept
        /\ \A r \in Reqs : Finishes(r, "sale") =>
             /\ response' = Response("sale", HTTP_201_CREATED, "", 0)
             /\ quantity' = [quantity EXCEPT
                                ![req[r].book] = quantity[req[r].book] - req[r].quantity]
             /\ sales' = Append(sales,
                    [book |-> req[r].book, quantity |-> req[r].quantity,
                     unit_price |-> req[r].book_price, sold_at |-> req[r].sold_at])
             /\ transactions' = Append(transactions,
                    [inventory |-> req[r].book, transaction_type |-> SALE,
                     quantity |-> req[r].quantity, reason |-> <<>>])
             /\ UNCHANGED <<price, hasInventory>> ]_vars

\* C5 witness: a sale of 2 out of 3 was recorded at the second time, at the price
\* the book had been given.
C5_Witness ==
    /\ response = Response("sale", HTTP_201_CREATED, "", 0)
    /\ Len(sales) = 1
    /\ sales[1] = [book |-> 1, quantity |-> 2, unit_price |-> 1800, sold_at |-> 2]
    /\ quantity[1] = 1

\* C6: an arrival of q >= 1 for a book is accepted and succeeds: the Inventory
\* exists afterwards, its quantity (0 when there was no row) has risen by exactly
\* q and exactly one ARRIVAL transaction of q is appended, in one step; an
\* arrival of q <= 0 is answered 400 before anything is written.
C6_ArrivalEffect ==
    [][ /\ \A q \in Quantities : q >= 1 =>
             \A r \in Reqs, b \in Books : ArrivalView_post(r, b, q) =>
                 /\ req'[r].pc = "validated" /\ req'[r].view = "arrival"
                 /\ req'[r].book = b /\ req'[r].quantity = q
        /\ \/ Rejected400
           \/ \A q \in Quantities : q <= 0 =>
                 \A r \in Reqs, b \in Books : ~ ArrivalView_post(r, b, q)
        /\ RequestDataKept
        /\ \A r \in Reqs : (InFlight(r) /\ ~ Finishes(r, req[r].view)) => UNCHANGED db
        /\ \A r \in Reqs : Finishes(r, "arrival") =>
             /\ response' = Response("arrival", HTTP_201_CREATED, "", 0)
             /\ hasInventory' = hasInventory \cup {req[r].book}
             /\ quantity' = [quantity EXCEPT ![req[r].book] =
                    (IF req[r].book \in hasInventory THEN quantity[req[r].book] ELSE 0)
                    + req[r].quantity]
             /\ transactions' = Append(transactions,
                    [inventory |-> req[r].book, transaction_type |-> ARRIVAL,
                     quantity |-> req[r].quantity, reason |-> <<>>])
             /\ UNCHANGED <<price, sales>> ]_vars

\* C6 witness: the first arrival of a book created its Inventory with the
\* arrived quantity, and a second arrival added to it.
C6_Witness ==
    /\ response = Response("arrival", HTTP_201_CREATED, "", 0)
    /\ hasInventory = {2}
    /\ quantity[2] = 3
    /\ Len(transactions) = 2
    /\ \A i \in 1..2 : transactions[i].transaction_type = ARRIVAL

\* The reason without its leading and trailing blanks.
Trimmed(s) ==
    LET first == CHOOSE i \in 1..Len(s) : s[i] # " " /\ \A j \in 1..(i - 1) : s[j] = " "
        last == CHOOSE i \in 1..Len(s) : s[i] # " " /\ \A j \in (i + 1)..Len(s) : s[j] = " "
    IN IF IsBlank(s) THEN <<>> ELSE SubSeq(s, first, last)

\* C7, with the recorded reason either trimmed or exactly as given: an adjustment of kind
\* LOSS or THEFT with a non-blank reason and 1 <= q <= Inventory.quantity is
\* accepted and, when it ends, has decreased the quantity by exactly q, appended
\* exactly one transaction of that kind with q and the recorded reason, and
\* reports the resulting quantity as inventory_after.
AdjustmentEffect(trimmed) ==
    /\ \A r \in Reqs :
         \* what every POST /inventory-adjustments/ on connection r leaves alone
         ( /\ Free(r) /\ UNCHANGED db
           /\ \A o \in Reqs \ {r} : req'[o] = req[o] ) =>
         \A b \in hasInventory :
         \A q \in {x \in Quantities : 1 <= x /\ x <= quantity[b]} :
         \A t \in {LOSS, THEFT} :
           \* the request is refused, or goes on with the data it was given
           ( \/ req'[r] = req[r]
             \/ req'[r].book = b /\ req'[r].quantity = q
                  /\ req'[r].transaction_type = t ) =>
         \A s \in {x \in Reasons : ~ IsBlank(x)} :
            InventoryAdjustmentView_post(r, b, t, q, s) =>
             /\ req'[r].pc = "validated" /\ req'[r].view = "adjustment"
             /\ req'[r].book = b /\ req'[r].quantity = q
             /\ req'[r].transaction_type = t
             /\ req'[r].reason = (IF trimmed THEN Trimmed(s) ELSE s)
    /\ RequestDataKept
    /\ \A r \in Reqs : Finishes(r, "adjustment") =>
         /\ response' = Response("adjustment", HTTP_201_CREATED, "",
                                 quantity[req[r].book] - req[r].quantity)
         /\ quantity' = [quantity EXCEPT
                            ![req[r].book] = quantity[req[r].book] - req[r].quantity]
         /\ response'.inventory_after = quantity'[req[r].book]
         /\ transactions' = Append(transactions,
                [inventory |-> req[r].book,
                 transaction_type |-> req[r].transaction_type,
                 quantity |-> req[r].quantity, reason |-> req[r].reason])
         /\ UNCHANGED <<price, hasInventory, sales>>

\* C7 as stated: the transaction carries the reason exactly as given.
C7_Original == [][AdjustmentEffect(FALSE)]_vars

\* C7 amended: the transaction carries the given reason without its leading and
\* trailing whitespace.
C7_AdjustmentEffect == [][AdjustmentEffect(TRUE)]_vars

\* C7 witness: a THEFT of 1 out of 2 was recorded with its reason, and the
\* response reports the 1 that is left.
C7_Witness ==
    /\ response = Response("adjustment", HTTP_201_CREATED, "", 1)
    /\ Len(transactions) = 2
    /\ transactions[2] = [inventory |-> 1, transaction_type |-> THEFT,
                          quantity |-> 1, reason |-> <<"x">>]
    /\ quantity[1] = 1

\* C8: an adjustment whose reason is empty or only whitespace is answered 400
\* and changes nothing, whatever its quantity, kind and book; and every LOSS or
\* THEFT transaction recorded has a reason that is not blank.
C8_BlankReasonRejected ==
    [][ /\ \/ Rejected400
           \/ \A r \in Reqs :
                 \* what every POST /inventory-adjustments/ on connection r leaves alone
                 ( /\ Free(r) /\ UNCHANGED db
                   /\ \A o \in Reqs \ {r} : req'[o] = req[o] ) =>
                 \A s \in {x \in Reasons : IsBlank(x)} :
                 \A b \in Books, t \in {LOSS, THEFT}, q \in Quantities :
                    ~ InventoryAdjustmentView_post(r, b, t, q, s)
        /\ \A i \in 1..Len(transactions') :
             transactions'[i].transaction_type \in {LOSS, THEFT} =>
                 ~ IsBlank(transactions'[i].reason) ]_vars

\* C8 witness: an adjustment was refused for its reason while the book had stock
\* that any quantity asked for would have fitted, and a LOSS is on record.
C8_Witness ==
    /\ response = Response("adjustment", HTTP_400_BAD_REQUEST, "reason", 0)
    /\ quantity[1] >= 1
    /\ \E i \in 1..Len(transactions) : transactions[i].transaction_type = LOSS

\* C9: a sale or an adjustment for a book without Inventory row is answered 400
\* and changes nothing; an Inventory row appears only in the step that ends an
\* arrival.
C9_NoInventoryRejected ==
    [][ /\ \/ Rejected400
           \/ \A b \in Books \ hasInventory : \A r \in Reqs, q \in Quantities :
                 /\ \A t \in Times : ~ SaleView_post(r, b, q, t)
                 /\ \A t \in {LOSS, THEFT}, s \in Reasons :
                       ~ InventoryAdjustmentView_post(r, b, t, q, s)
        /\ hasInventory' # hasInventory =>
              \E r \in Reqs : /\ Finishes(r, "arrival")
                              /\ hasInventory' = hasInventory \cup {req[r].book} ]_vars

\* C9 witness: a sale of book 1, which has no Inventory, was refused while
\* book 2 has one.
C9_Witness ==
    /\ response = Response("sale", HTTP_400_BAD_REQUEST, "book_id", 0)
    /\ hasInventory = {2}
    /\ quantity[2] >= 1

\* C10: a Sale row's unit_price is the book's price at the moment of the sale
\* call, and no later step (price change, arrival, sale, adjustment) changes the
\* unit_price of an existing Sale row or removes the row.
C10_UnitPriceFrozen ==
    [][ /\ \A i \in 1..Len(sales) :
             Len(sales') >= i /\ sales'[i].unit_price = sales[i].unit_price
        /\ \A r \in Reqs : (~ InFlight(r) /\ req'[r].view = "sale") =>
             req'[r].book_price = price[req'[r].book]
        /\ RequestDataKept
        /\ \A r \in Reqs : (Finishes(r, "sale") /\ sales' # sales) =>
             /\ Len(sales') = Len(sales) + 1
             /\ Last(sales').unit_price = req[r].book_price ]_vars

\* C10 witness: after a sale the book's price was changed and a later request
\* was recorded; the Sale row still holds the price of the sale.
C10_Witness ==
    /\ Len(sales) = 1
    /\ sales[1].unit_price # price[sales[1].book]
    /\ Len(transactions) = 3
    /\ transactions[2].transaction_type = SALE

\* C11: under every interleaving, a sale or an adjustment whose quantity exceeds
\* the book's stock at the step that performs its decrement ends answered 400
\* with nothing written: not as a failure of another kind, not as a committed
\* decrement.
C11_OverStockRejected ==
    [][ \A r \in Reqs :
          ( /\ Finishes(r, "sale") \/ Finishes(r, "adjustment")
            /\ req[r].quantity > quantity[req[r].book] ) =>
              /\ response'.status = HTTP_400_BAD_REQUEST
              /\ UNCHANGED db ]_vars

\* C12: InventoryTransaction rows are append-only: no step of the API (ledger
\* requests, price changes, deletion of a book) changes or removes a recorded
\* transaction.
C12_TransactionsAppendOnly ==
    [][ \A i \in 1..Len(transactions) :
          Len(transactions') >= i /\ transactions'[i] = transactions[i] ]_vars

\* The report request of connection 1, and what counts for it: the Sale rows sold
\* at or after now - period (all rows for "all"), of the genre asked for when
\* the report is the one by genre.
ReportQuery == req[1].query_params

ReportAsked(view) ==
    req[1].pc = "report" /\ req[1].view = view /\ response # NoResponse

WellFormedLimit ==
    "limit" \in DOMAIN ReportQuery =>
        ~ int_raises(ReportQuery.limit) /\ int(ReportQuery.limit) >= 0

LimitAsked == IF "limit" \in DOMAIN ReportQuery THEN int(ReportQuery.limit) ELSE 10

\* The report is asked as its interface describes: an enumerated period, a
\* limit that is a count if given, and for the report by genre a genre number.
WellFormedReport ==
    /\ req[1].pc = "report" /\ response # NoResponse
    /\ ~ period_rejected(ReportQuery)
    /\ WellFormedLimit
    /\ req[1].view = "by_genre" =>
          ~ genre_id_rejected(ReportQuery) /\ ~ int_raises(ReportQuery.genre_id)

Counts(s) ==
    /\ \/ ReportQuery.period = "all"
       \/ s.sold_at >= timezone_now - PERIOD_MAPPING[ReportQuery.period]
    /\ req[1].view = "by_genre" => Book_genre[s.book] = int(ReportQuery.genre_id)

RECURSIVE CountedTotal(_, _)
CountedTotal(rows, b) ==
    IF rows = <<>> THEN 0
    ELSE (IF Head(rows).book = b /\ Counts(Head(rows)) THEN Head(rows).quantity ELSE 0)
         + CountedTotal(Tail(rows), b)

CountedBooks == {sales[i].book : i \in {j \in 1..Len(sales) : Counts(sales[j])}}

Min(a, b) == IF a < b THEN a ELSE b

\* C13: a well-formed report is answered 200 with distinct books in order of
\* non-increasing total quantity sold, exactly min(limit, n) of them, n the
\* number of books with a counted sale and limit 10 when not given; no book left
\* out has sold more than a book returned.
C13_TopSellingRanked ==
    WellFormedReport =>
        /\ response.status = HTTP_200_OK
        /\ LET data == response.data
               returned == {data[i].book_id : i \in 1..Len(data)}
           IN /\ Len(data) = Min(LimitAsked, Cardinality(CountedBooks))
              /\ Cardinality(returned) = Len(data)
              /\ returned \subseteq CountedBooks
              /\ \A i, j \in 1..Len(data) : i < j =>
                    CountedTotal(sales, data[i].book_id)
                        >= CountedTotal(sales, data[j].book_id)
              /\ \A b \in CountedBooks \ returned : \A c \in returned :
                    CountedTotal(sales, b) <= CountedTotal(sales, c)

\* C13 witness: two books sold within the week, the report of the week was
\* asked with limit 1 and returned the one that sold more.
C13_Witness ==
    /\ ReportAsked("top")
    /\ ReportQuery = [period |-> "1w", limit |-> <<"1">>]
    /\ Cardinality(CountedBooks) = 2
    /\ response.status = HTTP_200_OK
    /\ Len(response.data) = 1
    /\ response.data[1].total_quantity = 2

\* C14: every entry of a report's answer carries as total_quantity the sum of
\* the quantities of exactly that book's Sale rows with sold_at >= now - period
\* (the instant now - period included; every row for "all"), and a book without
\* such a row has no entry.
C14_TotalsOverWindow ==
    (ReportAsked("top") /\ response.status = HTTP_200_OK) =>
        /\ \A i \in 1..Len(response.data) :
              /\ response.data[i].total_quantity
                    = CountedTotal(sales, response.data[i].book_id)
              /\ \E j \in 1..Len(sales) :
                    /\ sales[j].book = response.data[i].book_id
                    /\ \/ ReportQuery.period = "all"
                       \/ sales[j].sold_at + PERIOD_MAPPING[ReportQuery.period]
                              >= timezone_now
        /\ "limit" \notin DOMAIN ReportQuery =>
              {response.data[i].book_id : i \in 1..Len(response.data)} = CountedBooks

\* C14 witness: a book was sold once exactly a week ago and once the day before
\* that; the report of the week counts the first sale only.
C14_Witness ==
    /\ ReportAsked("top")
    /\ ReportQuery = [period |-> "1w"]
    /\ Len(sales) = 2
    /\ sales[1] = [book |-> 1, quantity |-> 2, unit_price |-> 1500,
                   sold_at |-> timezone_now - 8]
    /\ sales[2] = [book |-> 1, quantity |-> 1, unit_price |-> 1500,
                   sold_at |-> timezone_now - 7]
    /\ response = Report("top", << [book_id |-> 1, total_quantity |-> 1] >>)

\* C15: the report by genre returns only books of the genre asked for, each
\* with the total of its own sales in the window; a sale of a book of another
\* genre neither appears nor adds to a total.
C15_GenreOnly ==
    (ReportAsked("by_genre") /\ response.status = HTTP_200_OK) =>
        \A i \in 1..Len(response.data) :
            LET entry == response.data[i]
                own == {j \in 1..Len(sales) :
                          /\ sales[j].book = entry.book_id
                          /\ \/ ReportQuery.period = "all"
                             \/ sales[j].sold_at
                                  >= timezone_now - PERIOD_MAPPING[ReportQuery.period]}
            IN /\ Book_genre[entry.book_id] = int(ReportQuery.genre_id)
               /\ own # {}
               /\ entry.total_quantity = CountedTotal(sales, entry.book_id)
               /\ \A j \in 1..Len(sales) :
                     Book_genre[sales[j].book] # int(ReportQuery.genre_id) =>
                         sales[j].book # entry.book_id

\* C15 witness: a book of genre 1 and a book of genre 2 were sold within the
\* week; the report of genre 1 holds the first one only.
C15_Witness ==
    /\ ReportAsked("by_genre")
    /\ ReportQuery = [period |-> "1w", genre_id |-> <<"1">>]
    /\ Len(sales) = 2
    /\ {sales[1].book, sales[2].book} = {1, 3}
    /\ sales[1].sold_at = timezone_now - 7 /\ sales[2].sold_at = timezone_now - 7
    /\ response = Report("by_genre",
                         << [book_id |-> 1, total_quantity |-> sales[1].quantity] >>)

\* C16: both reports answer 400, with no ranking, a request whose period is
\* missing, empty or none of 1w, 1m, 3m, 6m, 1y, 5y, all; a request whose period
\* is one of the seven is never refused for its period, and is answered 200
\* when the rest of it is well formed.
C16_PeriodValidated ==
    (req[1].pc = "report" /\ response # NoResponse) =>
        IF \/ "period" \notin DOMAIN ReportQuery
           \/ ReportQuery.period \notin {"1w", "1m", "3m", "6m", "1y", "5y", "all"}
        THEN response = Response(req[1].view, HTTP_400_BAD_REQUEST, "period", 0)
        ELSE /\ response.error # "period"
             /\ WellFormedReport => response.status = HTTP_200_OK

\* C16 witness: the report by genre refused the period "2w" of a request that
\* named a genre.
C16_Witness ==
    /\ ReportAsked("by_genre")
    /\ ReportQuery = [period |-> "2w", genre_id |-> <<"1">>]
    /\ response = Response("by_genre", HTTP_400_BAD_REQUEST, "period", 0)

\* C17: the report by genre answers 400 when genre_id is missing, empty or not
\* a number, and when period is missing or not one of the seven; such a request
\* never fails in another way.
C17_GenreIdValidated ==
    ( /\ ReportAsked("by_genre")
      /\ \/ period_rejected(ReportQuery)
         \/ genre_id_rejected(ReportQuery)
         \/ int_raises(ReportQuery.genre_id) )
    => response.status = HTTP_400_BAD_REQUEST

\* C18: a report asked twice over the same Sale rows gives the same answer,
\* also in the order of books of equal total and in which of them the limit
\* keeps.
C18_SameAnswerOnTies ==
    [][ (response # NoResponse /\ UNCHANGED <<db, req>>) => response' = response ]_vars

\* The transactions recorded before the last one.
Front(seq) == SubSeq(seq, 1, Len(seq) - 1)

\* The last request recorded was an arrival of q for book b, and nothing runs.
JustArrived(b, q) ==
    /\ NoRequestInFlight
    /\ transactions # <<>>
    /\ Last(transactions) = [inventory |-> b, transaction_type |-> ARRIVAL,
                             quantity |-> q, reason |-> <<>>]
    /\ response = Response("arrival", HTTP_201_CREATED, "", 0)

\* C19: whatever the state of a book and whatever q >= 1, an arrival of q is
\* accepted and adds q; a LOSS of q with a non-blank reason asked directly after
\* it is accepted and, when it ends, is answered 201, has appended exactly one
\* LOSS of q after the ARRIVAL of q, and leaves Inventory.quantity at the value
\* it had before the arrival (the balance of the transactions recorded before
\* it, 0 for a book that had no Inventory).
C19_ArrivalLossRoundTrip ==
    [][ /\ \A q \in Quantities : q >= 1 =>
             \A r \in Reqs, b \in Books : ArrivalView_post(r, b, q) =>
                 req'[r] = [Idle EXCEPT !.pc = "validated", !.view = "arrival",
                                        !.book = b, !.quantity = q]
        /\ \A r \in Reqs : Finishes(r, "arrival") =>
             /\ response' = Response("arrival", HTTP_201_CREATED, "", 0)
             /\ quantity'[req[r].book] = quantity[req[r].book] + req[r].quantity
             /\ transactions' = Append(transactions,
                    [inventory |-> req[r].book, transaction_type |-> ARRIVAL,
                     quantity |-> req[r].quantity, reason |-> <<>>])
             /\ NoRequestInFlight'
        /\ \A b \in Books, q \in Quantities : JustArrived(b, q) =>
             \A s \in Reasons : ~ IsBlank(s) =>
                \A r \in Reqs : InventoryAdjustmentView_post(r, b, LOSS, q, s) =>
                    /\ req'[r].pc = "validated" /\ req'[r].view = "adjustment"
                    /\ req'[r].book = b /\ req'[r].quantity = q
                    /\ req'[r].transaction_type = LOSS
                    /\ UNCHANGED <<db, response>>
        /\ \A r \in Reqs :
             ( /\ Finishes(r, "adjustment")
               /\ req[r].transaction_type = LOSS
               /\ transactions # <<>>
               /\ Last(transactions) = [inventory |-> req[r].book,
                                        transaction_type |-> ARRIVAL,
                                        quantity |-> req[r].quantity,
                                        reason |-> <<>>] ) =>
                 /\ response'.status = HTTP_201_CREATED
                 /\ transactions' = Append(transactions,
                        [inventory |-> req[r].book, transaction_type |-> LOSS,
                         quantity |-> req[r].quantity, reason |-> req[r].reason])
                 /\ quantity'[req[r].book]
                        = SumSigned(Front(transactions), req[r].book)
                 /\ (\A i \in 1..Len(Front(transactions)) :
                        transactions[i].inventory # req[r].book)
                        => quantity'[req[r].book] = 0
                 /\ \A b \in Books \ {req[r].book} : quantity'[b] = quantity[b] ]_vars

\* C19 witness: a book holding 1 received 2 and then lost 2: it holds 1 again.
C19_Witness ==
    /\ response = Response("adjustment", HTTP_201_CREATED, "", 1)
    /\ Len(transactions) = 3
    /\ transactions[1] = [inventory |-> 1, transaction_type |-> ARRIVAL,
                          quantity |-> 1, reason |-> <<>>]
    /\ transactions[2] = [inventory |-> 1, transaction_type |-> ARRIVAL,
                          quantity |-> 2, reason |-> <<>>]
    /\ transactions[3].transaction_type = LOSS /\ transactions[3].quantity = 2
    /\ quantity[1] = 1

\* C20: from the stock check of a sale or an adjustment (its validation) to the
\* step that writes its decremented quantity, no other request commits a write
\* to the book's Inventory row: the quantity of the book changes, while the
\* request runs, only in the request's own final step.
C20_CheckAndDecrementTogether ==
    [][ \A r \in Reqs :
          ( /\ InFlight(r)
            /\ req[r].view \in {"sale", "adjustment"}
            /\ quantity'[req[r].book] # quantity[req[r].book] ) =>
              Finishes(r, req[r].view) ]_vars

\* C21: requests on one book, interleaved in any way, starting from a book
\* without Inventory: whenever every request has finished, Inventory.quantity
\* is the signed sum of the committed transactions of the book, so that no
\* committed arrival, sale or adjustment is missing from the quantity.
C21_NoLostUpdate ==
    NoRequestInFlight =>
        \A b \in Contended : quantity[b] = SumSigned(transactions, b)

\* The Inventory rows of book b in the table, committed or inserted by a
\* request that has not committed yet.
Inventory_rows(b) ==
    (IF b \in hasInventory THEN 1 ELSE 0)
        + Cardinality({r \in Reqs : InFlight(r) /\ req[r].book = b /\ req[r].created})

\* C22: in every reachable state a book has at most one Inventory row, also
\* while arrivals for a book without Inventory run at the same time; every
\* arrival that passed validation ends 201 with its quantity added to the row
\* it holds: the one it inserted, when the book had none, or else the one the
\* book already has.
C22_OneInventoryPerBook ==
    /\ [](\A b \in Books : Inventory_rows(b) <= 1)
    /\ [][ \A r \in Reqs : Finishes(r, "arrival") =>
              /\ response' = Response("arrival", HTTP_201_CREATED, "", 0)
              /\ req[r].created = (req[r].book \notin hasInventory)
              /\ req[r].book \in hasInventory'
              /\ quantity'[req[r].book]
                     = req[r].inventory_quantity + req[r].quantity ]_vars

\* C22 witness: two arrivals of book 1, which had no Inventory, ran at the same
\* time; the first inserted the row and committed 1, the second, started while
\* the first ran, holds that row with its quantity 1 and has not saved yet.
C22_Witness ==
    /\ ~ InFlight(1)
    /\ req[2].pc = "got" /\ req[2].view = "arrival" /\ req[2].book = 1
    /\ ~ req[2].created /\ req[2].inventory_quantity = 1
    /\ hasInventory = {1} /\ quantity[1] = 1
    /\ transactions = << [inventory |-> 1, transaction_type |-> ARRIVAL,
                          quantity |-> 1, reason |-> <<>>] >>

\* What the tables hold about book b: its Inventory row, its transactions and
\* its Sale rows.
BookData(b) ==
    << b \in hasInventory, quantity[b],
       SelectSeq(transactions, LAMBDA t : t.inventory = b),
       SelectSeq(sales, LAMBDA x : x.book = b) >>

\* The change of Inventory.quantity a request asks for.
Asked(r) ==
    IF req[r].view = "arrival" THEN req[r].quantity ELSE 0 - req[r].quantity

\* C23, in states: while requests run on different books, each of them can take
\* its next step at once, whatever the other is doing, and the Inventory row it
\* has read is still what the table holds for its book.
C23_NoWaitNoStaleRead ==
    \A r \in Reqs : InFlight(r) =>
        /\ ENABLED Step(r)
        /\ req[r].pc = "got" =>
              /\ req[r].created = (req[r].book \notin hasInventory)
              /\ req[r].inventory_quantity = quantity[req[r].book]

\* C23, in steps: a step of a request leaves the Inventory, the transactions
\* and the Sale rows of every other book as they are, and a request that
\* passed validation ends 201 with the quantity of its book changed by exactly
\* what it asked, as when it runs alone.
C23_FrameAndOutcome ==
    /\ \A r \in Reqs : req'[r] # req[r] =>
          \A b \in Books \ {IF InFlight(r) THEN req[r].book ELSE req'[r].book} :
              BookData(b)' = BookData(b)
    /\ \A r \in Reqs : (req[r].pc = "got" /\ req'[r].pc = "idle") =>
          /\ response'.status = HTTP_201_CREATED
          /\ quantity'[req[r].book] = quantity[req[r].book] + Asked(r)

\* C23: requests on different books are independent.
C23_DifferentBooksIndependent ==
    [] C23_NoWaitNoStaleRead /\ [][C23_FrameAndOutcome]_vars

\* C23 witness: a sale of book 1 and a loss of book 2 run at the same time,
\* both have read their Inventory row and neither has saved.
C23_Witness ==
    /\ req[1].pc = "got" /\ req[2].pc = "got"
    /\ {req[1].view, req[2].view} = {"sale", "adjustment"}
    /\ {req[1].book, req[2].book} = Books
    /\ quantity[1] >= 1 /\ quantity[2] >= 1

\* What Inventory.quantity of book b holds beyond the signed sum of its
\* transactions.
Offset(b) == quantity[b] - SumSigned(transactions, b)

\* C24: the Inventory of a book was created with a quantity q0 and no
\* transaction, and requests run one after another: no step of an arrival, a
\* sale or an adjustment, accepted or rejected, changes Inventory.quantity
\* minus the signed sum of the transactions, which is q0 at the start and so
\* after every request.
C24_OffsetPreserved ==
    [][ \A b \in Books : Offset(b)' = Offset(b) ]_vars

\* C24 witness: the Inventory was created with 2; a sale of 1 was recorded and a
\* later request was refused for exceeding the stock: the quantity is 1, the
\* transactions sum to -1.
C24_Witness ==
    /\ NoRequestInFlight
    /\ transactions = << [inventory |-> 1, transaction_type |-> SALE,
                          quantity |-> 1, reason |-> <<>>] >>
    /\ quantity[1] = 1
    /\ response.status = HTTP_400_BAD_REQUEST /\ response.error = "quantity"

====
